---- MODULE Spec2Model ----
(***************************************************************************)
(* Model of the commit scraper (src/index.js): the poll loop of            *)
(* startPolling, one cycle of main/getOrgCommits, the paginated            *)
(* repository listing of getOrgRepos, the per-repository and per-branch    *)
(* fan-out, the webhook notifier and the two files the cycle writes.       *)
(*                                                                         *)
(* Instants are milliseconds since the epoch, as Date.getTime() gives      *)
(* them.  A second-precision ISO-8601 string (what ISODateString prints    *)
(* and what the platform serves as pushed_at and as a commit's author      *)
(* date) is modelled by the number of whole seconds it denotes.            *)
(*                                                                         *)
(* The event loop runs one callback at a time: an action is one callback   *)
(* together with all the promise continuations it triggers, up to the      *)
(* next point where every task awaits a network response or a timer.       *)
(***************************************************************************)
EXTENDS Integers, Sequences, FiniteSets, TLC

VARIABLES
    now,          \* the wall clock, in milliseconds
    dataFile,     \* ./data.json: [last_checked |-> second-precision string]
    commitsFile,  \* ./commits.json: the last cycle result written, or "absent"
    poll,         \* startPolling: "boot", "first" (awaiting main), "armed", "dead"
    isFetching,   \* startPolling's guard flag
    ticks,        \* timer callbacks fired so far
    running,      \* the cycles (calls of main) in flight, in start order
    settled,      \* what the last settled cycle did
    orgRepos,     \* the platform: the organisation's repositories, as served
    repoBranches, \* the platform: repository name -> its branches
    branchCommits, \* the platform: repository name -> branch -> its commits
    landed        \* commits pushed to the platform since the process started

vars == <<now, dataFile, commitsFile, poll, isFetching, ticks, running, settled,
          orgRepos, repoBranches, branchCommits, landed>>

platform == <<orgRepos, repoBranches, branchCommits, landed>>

----------------------------------------------------------------------------
(* Bounds of the model *)

\* repositories of the organisation in the listing specification
MaxRepos == 21
\* timer callbacks in one behaviour
MaxTicks == 2
\* steps of the wall clock in one behaviour
MaxClock == 3
\* what one step of the wall clock adds, in milliseconds
ClockStepMs == 600
\* commits pushed to the platform in one behaviour of the landing specification
MaxLanded == 1

(* Program constants *)

\* per_page=10 in the listing request
PerPage == 10

\* the push instants (seconds) repositories carry in the listing specification
PushSecs == 1..3
\* the second the wall clock shows when the process starts
StartSec == 2

----------------------------------------------------------------------------
(* Dates *)

\* new Date(str).getTime() of a second-precision ISO string
DateGetTime(str) == str * 1000

\* ISODateString printing an instant one second before d, as a field read
\* from the wrong clock would
ISODateStringLagging(d) == d \div 1000 - 1

\* ISODateString(d): the UTC fields down to the second, the milliseconds dropped
ISODateString(d) == d \div 1000

\* getLastCheck(): the watermark, in milliseconds
getLastCheck == DateGetTime(dataFile.last_checked)

\* writeLastCheck(last_checked): data.json with last_checked replaced
writeLastCheck(last_checked) == [dataFile EXCEPT !.last_checked = ISODateString(last_checked)]

----------------------------------------------------------------------------
(* The repository listing, getOrgRepos *)

Min(a, b) == IF a < b THEN a ELSE b

\* What the platform answers to the request for page p: PerPage entries of the
\* served order, fewer on the last page, none beyond it.
Page(p) ==
    LET first == (p - 1) * PerPage + 1
        last == Min(p * PerPage, Len(orgRepos))
    IN IF first > last THEN <<>> ELSE SubSeq(orgRepos, first, last)

\* The inner while loop: pop trailing entries pushed before `since`.  index is
\* the JavaScript (0-based) index, so repoListPage[index] is page[index + 1].
RECURSIVE TrimLoopExclusive(_, _, _, _)
TrimLoopExclusive(page, index, pushedAt, since) ==
    IF pushedAt <= since
    THEN LET popped == SubSeq(page, 1, Len(page) - 1)
         IN IF index - 1 < 0
            THEN [page |-> popped, pushedAt |-> pushedAt]
            ELSE TrimLoopExclusive(popped, index - 1,
                                   DateGetTime(popped[index].pushed_at), since)
    ELSE [page |-> page, pushedAt |-> pushedAt]

RECURSIVE TrimLoop(_, _, _, _)
TrimLoop(page, index, pushedAt, since) ==
    IF pushedAt < since
    THEN LET popped == SubSeq(page, 1, Len(page) - 1)
         IN IF index - 1 < 0
            THEN [page |-> popped, pushedAt |-> pushedAt]
            ELSE TrimLoop(popped, index - 1,
                          DateGetTime(popped[index].pushed_at), since)
    ELSE [page |-> page, pushedAt |-> pushedAt]

\* One iteration of the outer loop once the response repoListPage to the
\* request for page c.pages has arrived.  c.pc stays "list" when the loop goes
\* round (the next request is then in flight) and becomes "returned" on break.
getOrgReposStepNoBreak(c, repoListPage) ==
    IF Len(repoListPage) = 0
    THEN [c EXCEPT !.pc = "returned"]
    ELSE LET t == TrimLoop(repoListPage, Len(repoListPage) - 1,
                           DateGetTime(repoListPage[Len(repoListPage)].pushed_at),
                           c.since)
         IN [c EXCEPT !.pages = @ + 1,
                      !.repoList = @ \o t.page,
                      !.requested = Append(@, c.pages + 1)]

\* the outer loop without pages++: the same page is requested again
getOrgReposStepSamePage(c, repoListPage) ==
    IF Len(repoListPage) = 0
    THEN [c EXCEPT !.pc = "returned"]
    ELSE LET t == TrimLoop(repoListPage, Len(repoListPage) - 1,
                           DateGetTime(repoListPage[Len(repoListPage)].pushed_at),
                           c.since)
         IN IF t.pushedAt < c.since
            THEN [c EXCEPT !.repoList = @ \o t.page,
                           !.pc = "returned"]
            ELSE [c EXCEPT !.repoList = @ \o t.page,
                           !.requested = Append(@, c.pages)]

getOrgReposStep(c, repoListPage) ==
    IF Len(repoListPage) = 0
    THEN [c EXCEPT !.pc = "returned"]
    ELSE LET t == TrimLoop(repoListPage, Len(repoListPage) - 1,
                           DateGetTime(repoListPage[Len(repoListPage)].pushed_at),
                           c.since)
         IN IF t.pushedAt < c.since
            THEN [c EXCEPT !.pages = @ + 1,
                           !.repoList = @ \o t.page,
                           !.pc = "returned"]
            ELSE [c EXCEPT !.pages = @ + 1,
                           !.repoList = @ \o t.page,
                           !.requested = Append(@, c.pages + 1)]

\* main() up to its first await of a network response: the watermark is read
\* and getOrgRepos requests page 1.
NewCycle(timed) ==
    [timed |-> timed,
     since |-> getLastCheck,
     startedAt |-> now,
     pc |-> "list",
     pages |-> 1,
     repoList |-> <<>>,
     requested |-> <<1>>,
     tasks |-> <<>>,
     branchRequests |-> 0,
     commitRequests |-> 0,
     posts |-> 0,
     pageFailed |-> FALSE]

----------------------------------------------------------------------------
(* One cycle after the listing: getOrgCommits, getRepoBranches,             *)
(* getBranchCommits and sendToDiscord                                      *)

\* repos.map(async ...): every listed repository's branches are requested
StartFanOut(c) ==
    [c EXCEPT !.pc = "fan",
              !.tasks = [k \in 1..Len(c.repoList) |->
                           [pc |-> "branches", br |-> <<>>, branchesOk |-> FALSE]],
              !.branchRequests = Len(c.repoList)]

\* getRepoBranches: the response's data, or [] when the request failed
getRepoBranches(ok, repo) == IF ok THEN repoBranches[repo] ELSE <<>>

\* the repository callback resumes with its branches: none, and it returns
\* null; else the commits of every branch are requested
OnBranches(c, k, branches) ==
    IF Len(branches) = 0
    THEN [c EXCEPT !.tasks[k].pc = "null"]
    ELSE [c EXCEPT !.tasks[k].pc = "commits",
                   !.tasks[k].br = [b \in 1..Len(branches) |->
                                      [branch |-> branches[b], pc |-> "commits",
                                       commits |-> <<>>, fetchOk |-> FALSE,
                                       fetched |-> <<>>, delivery |-> "none"]],
                   !.commitRequests = @ + Len(branches)]

\* the commits request without its since parameter: the whole branch
CommitsSinceUnfiltered(repo, branch, since) == branchCommits[repo][branch]

\* the platform's answer to the commits request: the branch's commits dated at
\* or after the since parameter, which getBranchCommits prints with ISODateString
CommitsSince(repo, branch, since) ==
    SelectSeq(branchCommits[repo][branch], LAMBDA cm : cm.date >= ISODateString(since))

\* sendToDiscord builds its message before its try block: commit.author.login
\* throws a TypeError on a commit the platform serves with author null
MessageThrows(commitLogs) == \E j \in DOMAIN commitLogs : ~commitLogs[j].hasAuthor

\* getBranchCommits with one try block around the whole repository callback: a
\* failed commits request makes the repository count as having no branches
OnCommitsFailureDropsRepo(c, k, b, ok, data) ==
    IF ~ok
    THEN [c EXCEPT !.tasks[k].pc = "null"]
    ELSE IF Len(data) > 0 /\ ~MessageThrows(data)
         THEN [c EXCEPT !.tasks[k].br[b].pc = "post",
                        !.tasks[k].br[b].commits = data,
                        !.posts = @ + 1]
         ELSE [c EXCEPT !.tasks[k].br[b].pc = "done",
                        !.tasks[k].br[b].commits = IF Len(data) = 0 THEN data ELSE <<>>]

\* getBranchCommits resumes with the response: a failed request, an empty list
\* and an error thrown while the message is built all return without a POST;
\* otherwise the POST is issued and awaited
OnCommits(c, k, b, ok, data) ==
    IF ok /\ Len(data) > 0 /\ ~MessageThrows(data)
    THEN [c EXCEPT !.tasks[k].br[b].pc = "post",
                   !.tasks[k].br[b].commits = data,
                   !.posts = @ + 1]
    ELSE IF ok /\ Len(data) = 0
         THEN [c EXCEPT !.tasks[k].br[b].pc = "done",
                        !.tasks[k].br[b].commits = data]
         ELSE [c EXCEPT !.tasks[k].br[b].pc = "done",
                        !.tasks[k].br[b].commits = <<>>]

\* the POST settles, delivered or not: sendToDiscord returns, getBranchCommits
\* returns commits.data
OnPost(c, k, b) == [c EXCEPT !.tasks[k].br[b].pc = "done"]

\* the repository callback with sendToDiscord called but not awaited
RepoSettledPostPending(task) ==
    \/ task.pc = "null"
    \/ task.pc = "commits" /\ \A b \in DOMAIN task.br : task.br[b].pc \in {"done", "post"}

\* the promise of the repository callback has resolved
RepoSettled(task) ==
    \/ task.pc = "null"
    \/ task.pc = "commits" /\ \A b \in DOMAIN task.br : task.br[b].pc = "done"

\* Promise.all(reposUpdates) has resolved
AllSettled(c) == \A k \in DOMAIN c.tasks : RepoSettled(c.tasks[k])

\* await Promise.all(reposUpdates) without .filter(Boolean): a repository
\* without branches stays in the list
RECURSIVE reposUpdatesUnfiltered(_, _)
reposUpdatesUnfiltered(c, k) ==
    IF k > Len(c.tasks) THEN <<>>
    ELSE <<[repo |-> c.repoList[k].name,
            branchCommits |-> [b \in DOMAIN c.tasks[k].br |->
                                 [branch |-> c.tasks[k].br[b].branch,
                                  commits |-> c.tasks[k].br[b].commits]]]>>
         \o reposUpdatesUnfiltered(c, k + 1)

\* (await Promise.all(reposUpdates)).filter(Boolean), from task k on
RECURSIVE filteredReposUpdates(_, _)
filteredReposUpdates(c, k) ==
    IF k > Len(c.tasks) THEN <<>>
    ELSE IF c.tasks[k].pc = "null" THEN filteredReposUpdates(c, k + 1)
    ELSE <<[repo |-> c.repoList[k].name,
            branchCommits |-> [b \in DOMAIN c.tasks[k].br |->
                                 [branch |-> c.tasks[k].br[b].branch,
                                  commits |-> c.tasks[k].br[b].commits]]]>>
         \o filteredReposUpdates(c, k + 1)

orgCommits(c) == filteredReposUpdates(c, 1)

\* commits.json written at the end of every cycle
WriteCommitsFileAlways(c) == orgCommits(c)

\* commits.json after the cycle: written only if a repository was listed
WriteCommitsFile(c) == IF Len(c.repoList) > 0 THEN orgCommits(c) ELSE commitsFile

----------------------------------------------------------------------------
(* startPolling *)

\* what startPolling does once main() has settled: the directly awaited first
\* run arms the timer on success and only logs on failure; a timer callback
\* clears the flag in its finally block either way
AfterMainNoFinally(c, threw) ==
    IF c.timed
    THEN [poll |-> poll, isFetching |-> IF threw THEN isFetching ELSE FALSE]
    ELSE [poll |-> IF threw THEN "dead" ELSE "polling", isFetching |-> isFetching]

AfterMain(c, threw) ==
    IF c.timed
    THEN [poll |-> poll, isFetching |-> FALSE]
    ELSE [poll |-> IF threw THEN "dead" ELSE "polling", isFetching |-> isFetching]

Remove(seq, i) == SubSeq(seq, 1, i - 1) \o SubSeq(seq, i + 1, Len(seq))

Summary(c, outcome) ==
    [n |-> settled.n + 1,
     outcome |-> outcome,
     timed |-> c.timed,
     since |-> c.since,
     startedAt |-> c.startedAt,
     pageFailed |-> c.pageFailed,
     repos |-> Len(c.repoList),
     branchRequests |-> c.branchRequests,
     commitRequests |-> c.commitRequests,
     posts |-> c.posts,
     repoList |-> c.repoList,
     tasks |-> c.tasks,
     result |-> orgCommits(c),
     before |-> [outcome |-> settled.outcome, since |-> settled.since,
                 posts |-> settled.posts, result |-> settled.result]]

\* getOrgCommits runs to its end: the side file, the watermark, and main returns
Finish(i, c) ==
    /\ commitsFile' = WriteCommitsFile(c)
    /\ dataFile' = writeLastCheck(now)
    /\ running' = Remove(running, i)
    /\ settled' = Summary(c, "ok")
    /\ poll' = AfterMain(c, FALSE).poll
    /\ isFetching' = AfterMain(c, FALSE).isFetching

\* the cycle goes on with c, or ends if nothing is awaited any more
Continue(i, c) ==
    IF c.pc = "fan" /\ AllSettled(c)
    THEN Finish(i, c)
    ELSE /\ running' = [running EXCEPT ![i] = c]
         /\ UNCHANGED <<dataFile, commitsFile, poll, isFetching, settled>>

\* the error leaves getOrgRepos, getOrgCommits and main
Throw(i, c) ==
    /\ running' = Remove(running, i)
    /\ settled' = Summary(c, "error")
    /\ poll' = AfterMain(c, TRUE).poll
    /\ isFetching' = AfterMain(c, TRUE).isFetching
    /\ UNCHANGED <<dataFile, commitsFile>>

\* a failed page request, were getOrgRepos to catch it as getRepoBranches does
OnPageErrorCaught(i, c) == Continue(i, StartFanOut([c EXCEPT !.pc = "returned"]))

\* a failed page request: octokit.request rejects inside getOrgRepos, which has
\* no try block
OnPageError(i, c) == Throw(i, c)

\* startPolling() with the timer set before the first run is awaited
StartPollingTimerFirst ==
    /\ poll = "boot"
    /\ poll' = "polling"
    /\ running' = Append(running, NewCycle(FALSE))
    /\ UNCHANGED <<now, dataFile, commitsFile, isFetching, ticks, settled, platform>>

\* startPolling() is called: the first cycle starts and is awaited directly.
StartPolling ==
    /\ poll = "boot"
    /\ poll' = "first"
    /\ running' = Append(running, NewCycle(FALSE))
    /\ UNCHANGED <<now, dataFile, commitsFile, isFetching, ticks, settled, platform>>

\* the setInterval callback without its isFetching test
TimerTickNoGuard ==
    /\ poll = "polling"
    /\ ticks < MaxTicks
    /\ ticks' = ticks + 1
    /\ isFetching' = TRUE
    /\ running' = Append(running, NewCycle(TRUE))
    /\ UNCHANGED <<now, dataFile, commitsFile, poll, settled, platform>>

\* the setInterval callback: skip while the flag is set, else set it and run main
TimerTick ==
    /\ poll = "polling"
    /\ ticks < MaxTicks
    /\ ticks' = ticks + 1
    /\ IF isFetching
       THEN UNCHANGED <<isFetching, running>>
       ELSE /\ isFetching' = TRUE
            /\ running' = Append(running, NewCycle(TRUE))
    /\ UNCHANGED <<now, dataFile, commitsFile, poll, settled, platform>>

----------------------------------------------------------------------------
(* The responses the cycles in flight await *)

\* a page of repositories arrives
PageOk(i) ==
    /\ running[i].pc = "list"
    /\ LET c == getOrgReposStep(running[i], Page(running[i].pages))
       IN Continue(i, IF c.pc = "returned" THEN StartFanOut(c) ELSE c)
    /\ UNCHANGED <<now, ticks, platform>>

\* a page request fails
PageFail(i) ==
    /\ running[i].pc = "list"
    /\ OnPageError(i, [running[i] EXCEPT !.pageFailed = TRUE])
    /\ UNCHANGED <<now, ticks, platform>>

\* the branches request of the k-th listed repository settles
BranchesResponse(i, k, ok) ==
    /\ running[i].pc = "fan"
    /\ running[i].tasks[k].pc = "branches"
    /\ Continue(i, OnBranches([running[i] EXCEPT !.tasks[k].branchesOk = ok], k,
                              getRepoBranches(ok, running[i].repoList[k].name)))
    /\ UNCHANGED <<now, ticks, platform>>

\* the commits request of a branch settles
CommitsResponse(i, k, b, ok) ==
    /\ running[i].pc = "fan"
    /\ running[i].tasks[k].pc = "commits"
    /\ running[i].tasks[k].br[b].pc = "commits"
    /\ LET data == CommitsSince(running[i].repoList[k].name,
                                running[i].tasks[k].br[b].branch,
                                running[i].since)
       IN Continue(i, OnCommits([running[i] EXCEPT
                                    !.tasks[k].br[b].fetchOk = ok,
                                    !.tasks[k].br[b].fetched = IF ok THEN data ELSE <<>>],
                                k, b, ok, data))
    /\ UNCHANGED <<now, ticks, platform>>

\* the webhook POST of a branch settles, delivered or failed
PostResponse(i, k, b, ok) ==
    /\ running[i].pc = "fan"
    /\ running[i].tasks[k].pc = "commits"
    /\ running[i].tasks[k].br[b].pc = "post"
    /\ Continue(i, OnPost([running[i] EXCEPT !.tasks[k].br[b].delivery =
                                                IF ok THEN "ok" ELSE "failed"],
                          k, b))
    /\ UNCHANGED <<now, ticks, platform>>

----------------------------------------------------------------------------
(* The environment *)

\* the wall clock moves on
ClockTick ==
    /\ now < DateGetTime(StartSec) + MaxClock * ClockStepMs
    /\ now' = now + ClockStepMs
    /\ UNCHANGED <<dataFile, commitsFile, poll, isFetching, ticks, running, settled,
                   platform>>

----------------------------------------------------------------------------
(* The whole program *)

\* what an earlier run of the program left in commits.json
PreviousCommitsFile == <<[repo |-> 0, branchCommits |-> <<>>]>>

NoneSettled ==
    [n |-> 0, outcome |-> "none", timed |-> FALSE, since |-> 0, startedAt |-> 0,
     pageFailed |-> FALSE, repos |-> 0, branchRequests |-> 0, commitRequests |-> 0,
     posts |-> 0, repoList |-> <<>>, tasks |-> <<>>, result |-> <<>>,
     before |-> [outcome |-> "none", since |-> 0, posts |-> 0, result |-> <<>>]]

Commit(sha, date) == [sha |-> sha, date |-> date, hasAuthor |-> TRUE]

\* a commit the platform serves with author null: its e-mail address belongs
\* to no account of the platform
Unlinked(sha, date) == [sha |-> sha, date |-> date, hasAuthor |-> FALSE]

\* the organisations the process is started on: an empty one; one whose second
\* repository is older and has no branches; one with two fresh repositories;
\* one pushed to lately whose only commit was authored earlier; one with a
\* commit whose author has no account
Orgs ==
    {[repos |-> <<>>, branches |-> <<>>, commits |-> <<>>],
     [repos |-> <<[name |-> 1, pushed_at |-> StartSec],
                  [name |-> 2, pushed_at |-> StartSec - 1]>>,
      branches |-> <<<<"main", "dev">>, <<>>>>,
      commits |-> <<[main |-> <<Commit(11, StartSec)>>,
                     dev |-> <<Commit(12, StartSec - 1)>>],
                    <<>>>>],
     [repos |-> <<[name |-> 1, pushed_at |-> StartSec],
                  [name |-> 2, pushed_at |-> StartSec]>>,
      branches |-> <<<<"main">>, <<"main">>>>,
      commits |-> <<[main |-> <<Commit(11, StartSec)>>],
                    [main |-> <<>>]>>],
     [repos |-> <<[name |-> 1, pushed_at |-> StartSec]>>,
      branches |-> <<<<"main">>>>,
      commits |-> <<[main |-> <<Commit(11, StartSec - 1)>>]>>],
     [repos |-> <<[name |-> 1, pushed_at |-> StartSec]>>,
      branches |-> <<<<"main", "dev">>>>,
      commits |-> <<[main |-> <<Commit(11, StartSec), Unlinked(12, StartSec)>>,
                     dev |-> <<Commit(13, StartSec)>>]>>]}

\* the process starts: the clock shows StartSec, data.json holds a watermark an
\* earlier run wrote (second precision, not in the future)
Init ==
    /\ now = DateGetTime(StartSec)
    /\ dataFile \in [last_checked : {StartSec - 1, StartSec}]
    /\ commitsFile = PreviousCommitsFile
    /\ poll = "boot"
    /\ isFetching = FALSE
    /\ ticks = 0
    /\ running = <<>>
    /\ settled = NoneSettled
    /\ \E org \in Orgs :
          /\ orgRepos = org.repos
          /\ repoBranches = org.branches
          /\ branchCommits = org.commits
    /\ landed = 0

Next ==
    \/ StartPolling
    \/ TimerTick
    \/ \E i \in DOMAIN running : PageOk(i)
    \/ \E i \in DOMAIN running : PageFail(i)
    \/ \E i \in DOMAIN running : \E k \in DOMAIN running[i].tasks, ok \in BOOLEAN :
          BranchesResponse(i, k, ok)
    \/ \E i \in DOMAIN running : \E k \in DOMAIN running[i].tasks :
          \E b \in DOMAIN running[i].tasks[k].br, ok \in BOOLEAN :
             CommitsResponse(i, k, b, ok)
    \/ \E i \in DOMAIN running : \E k \in DOMAIN running[i].tasks :
          \E b \in DOMAIN running[i].tasks[k].br, ok \in BOOLEAN :
             PostResponse(i, k, b, ok)
    \/ ClockTick

Spec == Init /\ [][Next]_vars

----------------------------------------------------------------------------
(* The program while commits are pushed to the platform *)

\* the served order once repository r has been pushed to at second s: it is the
\* most recently pushed
Pushed(r, s) ==
    <<[name |-> r, pushed_at |-> s]>> \o SelectSeq(orgRepos, LAMBDA x : x.name # r)

\* somebody pushes a commit, authored now, to a branch of repository r
CommitLands(r, branch) ==
    /\ landed < MaxLanded
    /\ landed' = landed + 1
    /\ branchCommits' = [branchCommits EXCEPT ![r][branch] =
          Append(@, [sha |-> 100 + landed, date |-> ISODateString(now),
                     hasAuthor |-> TRUE])]
    /\ orgRepos' = Pushed(r, ISODateString(now))
    /\ UNCHANGED <<now, dataFile, commitsFile, poll, isFetching, ticks, running, settled,
                   repoBranches>>

\* the process starts on one repository with one branch, whose last commit was
\* authored in the second of the stored watermark
LandInit ==
    /\ now = DateGetTime(StartSec)
    /\ dataFile = [last_checked |-> StartSec]
    /\ commitsFile = PreviousCommitsFile
    /\ poll = "boot"
    /\ isFetching = FALSE
    /\ ticks = 0
    /\ running = <<>>
    /\ settled = NoneSettled
    /\ orgRepos = <<[name |-> 1, pushed_at |-> StartSec]>>
    /\ repoBranches = <<<<"main">>>>
    /\ branchCommits = <<[main |-> <<Commit(11, StartSec)>>]>>
    /\ landed = 0

LandNext ==
    \/ Next
    \/ \E r \in DOMAIN branchCommits : \E branch \in DOMAIN branchCommits[r] :
          CommitLands(r, branch)

LandSpec == LandInit /\ [][LandNext]_vars

----------------------------------------------------------------------------
(* The listing on its own: getOrgRepos called with the stored watermark on   *)
(* every bounded organisation served in descending push order.              *)

\* n repositories pushed at second s, named from `from` on
RECURSIVE Block(_, _, _)
Block(s, n, from) ==
    IF n = 0 THEN <<>>
    ELSE <<[name |-> from, pushed_at |-> s]>> \o Block(s, n - 1, from + 1)

\* the served order: a repositories pushed at 3, then b at 2, then c at 1
Served(a, b, c) == Block(3, a, 1) \o Block(2, b, a + 1) \o Block(1, c, a + b + 1)

ListerInit ==
    /\ now = DateGetTime(3)
    /\ dataFile \in [last_checked : PushSecs]
    /\ commitsFile = PreviousCommitsFile
    /\ poll = "boot"
    /\ isFetching = FALSE
    /\ ticks = 0
    /\ running = <<>>
    /\ settled = NoneSettled
    /\ \E a, b, c \in 0..MaxRepos :
          /\ a + b + c <= MaxRepos
          /\ orgRepos = Served(a, b, c)
    /\ repoBranches = <<>>
    /\ branchCommits = <<>>
    /\ landed = 0

\* the response to the page request in flight arrives and the loop body runs
ListerPage ==
    /\ Len(running) = 1
    /\ running[1].pc = "list"
    /\ running' = <<getOrgReposStep(running[1], Page(running[1].pages))>>
    /\ UNCHANGED <<now, dataFile, commitsFile, poll, isFetching, ticks, settled, platform>>

ListerNext == StartPolling \/ ListerPage

ListerSpec == ListerInit /\ [][ListerNext]_vars

----------------------------------------------------------------------------
(* Properties of the repository listing (checked under ListerSpec) *)

\* the pages whose response the loop body has processed
Processed(c) == 1..(c.pages - 1)

IsOld(r, since) == DateGetTime(r.pushed_at) < since

\* the repositories of the served order pushed at or after `since`
Retained(since) == SelectSeq(orgRepos, LAMBDA r : ~IsOld(r, since))

AllOld(page, since) == \A k \in DOMAIN page : IsOld(page[k], since)
SomeOld(page, since) == \E k \in DOMAIN page : IsOld(page[k], since)
SomeKept(page, since) == \E k \in DOMAIN page : ~IsOld(page[k], since)

\* C1: when getOrgRepos has returned, its result is exactly the repositories
\* pushed at or after the watermark (a push instant equal to the watermark
\* included), in the served order, none missing and none twice.
C1_ListerReturnsRetained ==
    \A i \in DOMAIN running :
        running[i].pc = "returned" => running[i].repoList = Retained(running[i].since)

\* C1 witness: a listing over more than one page has returned, it kept a
\* repository pushed exactly at the watermark and it dropped an older one.
C1_Witness ==
    \E i \in DOMAIN running :
        /\ running[i].pc = "returned"
        /\ Len(running[i].requested) >= 2
        /\ \E k \in DOMAIN running[i].repoList :
              DateGetTime(running[i].repoList[k].pushed_at) = running[i].since
        /\ SomeOld(orgRepos, running[i].since)

\* C2 (as claimed): once a processed page held an entry pushed before the
\* watermark next to retained entries, no later page is requested.
C2_NoRequestAfterMixedPage ==
    \A i \in DOMAIN running :
        \A p \in Processed(running[i]) :
            (SomeOld(Page(p), running[i].since) /\ SomeKept(Page(p), running[i].since))
                => \A k \in DOMAIN running[i].requested : running[i].requested[k] <= p

\* C3: once a processed page held only entries pushed before the watermark,
\* the loop has ended, no later page was requested and none of that page's
\* repositories is in the result.
C3_StopsAtAllOldPage ==
    \A i \in DOMAIN running :
        \A p \in Processed(running[i]) :
            (Page(p) # <<>> /\ AllOld(Page(p), running[i].since))
                => /\ running[i].pc = "returned"
                   /\ \A k \in DOMAIN running[i].requested : running[i].requested[k] <= p
                   /\ \A k \in DOMAIN running[i].repoList :
                         \A j \in DOMAIN Page(p) : running[i].repoList[k] # Page(p)[j]

\* C3 witness: the second page was all older than the watermark, after a first
\* page that was retained whole, and a third page exists on the platform.
C3_Witness ==
    \E i \in DOMAIN running :
        /\ 2 \in Processed(running[i])
        /\ AllOld(Page(2), running[i].since)
        /\ Len(running[i].repoList) = PerPage
        /\ Page(3) # <<>>

----------------------------------------------------------------------------
(* Properties of the poll loop (checked under Spec) *)

\* a cycle settles in this step
Settles == settled'.n # settled.n

\* C4 (as claimed): the watermark a completed cycle persists is the instant
\* the clock showed when that cycle started, printed at second precision.
C4_WatermarkIsCycleStart ==
    settled.outcome = "ok" => dataFile.last_checked = ISODateString(settled.startedAt)

\* C5: the persisted watermark never moves backward, and the watermark a
\* completed cycle persists is at or after the watermark that cycle read.
C5_WatermarkMonotone ==
    [][/\ DateGetTime(dataFile'.last_checked) >= DateGetTime(dataFile.last_checked)
       /\ (Settles /\ settled'.outcome = "ok")
             => DateGetTime(dataFile'.last_checked) >= settled'.since]_vars

\* C5 witness: a timer-triggered cycle that met a failed branches or commits
\* request has completed and persisted a watermark later than the one it read.
C5_Witness ==
    /\ settled.outcome = "ok"
    /\ settled.timed
    /\ settled.branchRequests > settled.commitRequests
    /\ DateGetTime(dataFile.last_checked) > settled.since

\* C6: a timer callback that fires while the flag is set starts no cycle,
\* issues no request, leaves the flag set and leaves both files as they are.
C6_OverlapTickIsNoOp ==
    [][(ticks' # ticks /\ isFetching)
          => /\ isFetching'
             /\ UNCHANGED <<running, dataFile, commitsFile, settled, poll>>]_vars

\* C6 witness: the timer has fired twice and only one timer-triggered cycle
\* was started, which is still in flight.
C6_Witness ==
    /\ ticks = 2
    /\ isFetching
    /\ settled.n = 1
    /\ Len(running) = 1

\* C7: at most one cycle is in flight.
C7_OneCycleInFlight == Len(running) <= 1

\* C7 witness: the timer fired while the flag was set and a cycle was in flight.
C7_Witness ==
    /\ ticks = 2
    /\ settled.n = 1
    /\ Len(running) = 1
    /\ running[1].pc = "fan"

\* C8 (as claimed): after a cycle has ended in an error the timer is running,
\* so that further cycles are started.
C8_TimerSurvivesErrors == settled.outcome = "error" => poll = "polling"

\* C9: the flag is set only while a timer-triggered cycle is in flight, and a
\* timer callback that fires after a cycle has settled starts a cycle.
C9_FlagClearedOnSettle ==
    [][/\ Settles => ~isFetching'
       /\ (ticks' # ticks /\ running = <<>>) => Len(running') = 1]_vars

\* C9 witness: a timer-triggered cycle ended in an error and the next timer
\* callback has started a new cycle.
C9_Witness ==
    /\ settled.outcome = "error"
    /\ settled.timed
    /\ Len(running) = 1
    /\ running[1].timed

\* C10: a failed page request ends the cycle in an error: that cycle made no
\* branches request, no commits request and no POST, and neither data.json nor
\* commits.json is written.
C10_PageFailureAborts ==
    [][(Settles /\ settled'.pageFailed)
          => /\ settled'.outcome = "error"
             /\ settled'.branchRequests = 0
             /\ settled'.commitRequests = 0
             /\ settled'.posts = 0
             /\ UNCHANGED <<dataFile, commitsFile>>]_vars

\* C10 witness: the request for the second page failed after the first page
\* had put repositories on the list.
C10_Witness ==
    /\ settled.pageFailed
    /\ settled.outcome = "error"
    /\ settled.repos > 0

----------------------------------------------------------------------------
(* Properties of one cycle's fan-out (checked under Spec) *)

\* the entries of the settled cycle's result for the repository named name
Entries(name) == {e \in DOMAIN settled.result : settled.result[e].repo = name}

\* a branches request or a commits request of the settled cycle failed
SomeFetchFailed ==
    \E k \in DOMAIN settled.tasks :
        \/ ~settled.tasks[k].branchesOk
        \/ \E b \in DOMAIN settled.tasks[k].br : ~settled.tasks[k].br[b].fetchOk

\* every unit of the settled cycle was fetched, a failed unit counts as empty
\* and every other unit is recorded and notified as the platform served it
FailuresIsolated ==
    /\ settled.outcome = "ok"
    /\ settled.branchRequests = Len(settled.repoList)
    /\ \A k \in DOMAIN settled.tasks :
          LET task == settled.tasks[k]
              name == settled.repoList[k].name
          IN /\ ~task.branchesOk => (task.pc = "null" /\ Entries(name) = {})
             /\ (task.branchesOk /\ repoBranches[name] # <<>>) =>
                   /\ task.pc = "commits"
                   /\ \E e \in Entries(name) :
                         /\ DOMAIN settled.result[e].branchCommits = DOMAIN repoBranches[name]
                         /\ \A b \in DOMAIN repoBranches[name] :
                               LET br == task.br[b]
                                   rec == settled.result[e].branchCommits[b]
                               IN /\ rec.branch = repoBranches[name][b]
                                  /\ ~br.fetchOk =>
                                        (rec.commits = <<>> /\ br.delivery = "none")
                                  /\ br.fetchOk =>
                                        br.fetched = CommitsSince(name, rec.branch,
                                                                  settled.since)
                                  /\ (br.fetchOk /\ br.fetched # <<>>
                                      /\ ~MessageThrows(br.fetched)) =>
                                        (rec.commits = br.fetched /\ br.delivery # "none")

NonEmptyBatches ==
    {kb \in UNION {{<<k, b>> : b \in DOMAIN settled.tasks[k].br} : k \in DOMAIN settled.tasks} :
        /\ settled.tasks[kb[1]].br[kb[2]].fetchOk
        /\ settled.tasks[kb[1]].br[kb[2]].fetched # <<>>}

\* C12 (as claimed): a completed cycle made as many POST attempts as it had
\* branches whose commits request returned a non-empty list, and a branch whose
\* request returned no commits got no POST and is in the result with an empty
\* list.
C12_OnePostPerBatch ==
    settled.outcome = "ok" =>
        /\ settled.posts = Cardinality(NonEmptyBatches)
        /\ \A k \in DOMAIN settled.tasks : \A b \in DOMAIN settled.tasks[k].br :
              (settled.tasks[k].br[b].fetchOk /\ settled.tasks[k].br[b].fetched = <<>>)
                 => /\ settled.tasks[k].br[b].delivery = "none"
                    /\ \E e \in Entries(settled.repoList[k].name) :
                          settled.result[e].branchCommits[b].commits = <<>>

\* no entry of a cycle result holds a commit
NoCommitsIn(result) ==
    \A e \in DOMAIN result : \A b \in DOMAIN result[e].branchCommits :
        result[e].branchCommits[b].commits = <<>>

\* the platform holds no commit dated at or after the instant since
NothingNewSince(since) ==
    \A r \in DOMAIN branchCommits : \A b \in DOMAIN branchCommits[r] :
        \A j \in DOMAIN branchCommits[r][b] : DateGetTime(branchCommits[r][b][j].date) < since

C14_EmptyRepoExcluded ==
    settled.outcome = "ok" =>
        /\ \A k \in DOMAIN settled.tasks :
              (settled.tasks[k].branchesOk /\ repoBranches[settled.repoList[k].name] = <<>>)
                 => /\ Entries(settled.repoList[k].name) = {}
                    /\ settled.tasks[k].br = <<>>
        /\ Len(settled.result) =
              Cardinality({k \in DOMAIN settled.tasks : settled.tasks[k].br # <<>>})
        /\ \A e \in DOMAIN settled.result : settled.result[e].branchCommits # <<>>
        /\ settled.commitRequests =
              Cardinality(UNION {{<<k, b>> : b \in DOMAIN settled.tasks[k].br} :
                                 k \in DOMAIN settled.tasks})

\* C14 witness: of two listed repositories one has branches with new commits and
\* the other has none; every request succeeded, the result holds the first
\* repository alone and its batches were notified.
C14_Witness ==
    /\ settled.outcome = "ok"
    /\ Len(settled.repoList) = 2
    /\ ~SomeFetchFailed
    /\ repoBranches[settled.repoList[2].name] = <<>>
    /\ Len(settled.result) = 1
    /\ settled.result[1].repo = settled.repoList[1].name
    /\ settled.posts = Len(settled.result[1].branchCommits)

\* the branches of the settled cycle for which a POST was made and has settled
SettledPosts ==
    {kb \in UNION {{<<k, b>> : b \in DOMAIN settled.tasks[k].br} : k \in DOMAIN settled.tasks} :
        settled.tasks[kb[1]].br[kb[2]].delivery # "none"}

\* C15: when a cycle has assembled its result and written its files, every
\* request of that cycle has been answered and every POST it made has
\* settled; a settled cycle is no longer in flight, so it makes no POST later.
C15_NotificationsSettleFirst ==
    settled.outcome = "ok" =>
        /\ \A k \in DOMAIN settled.tasks :
              /\ settled.tasks[k].pc \in {"null", "commits"}
              /\ \A b \in DOMAIN settled.tasks[k].br : settled.tasks[k].br[b].pc = "done"
        /\ settled.posts = Cardinality(SettledPosts)

\* C15 witness: a completed cycle made two POSTs, one delivered and one failed.
C15_Witness ==
    /\ settled.outcome = "ok"
    /\ settled.posts = 2
    /\ \E k1, k2 \in DOMAIN settled.tasks :
          \E b1 \in DOMAIN settled.tasks[k1].br, b2 \in DOMAIN settled.tasks[k2].br :
             /\ settled.tasks[k1].br[b1].delivery = "ok"
             /\ settled.tasks[k2].br[b2].delivery = "failed"

\* C16: a cycle whose listing succeeded overwrites commits.json with its result
\* if it listed a repository and leaves the file as it is if it listed none;
\* it writes the watermark either way.
C16_SideFileOnlyIfListed ==
    [][(Settles /\ settled'.outcome = "ok")
          => /\ settled'.repos > 0 => commitsFile' = settled'.result
             /\ settled'.repos = 0 => commitsFile' = commitsFile
             /\ dataFile'.last_checked = ISODateString(now)]_vars

\* C16 witness: a cycle that listed no repository has completed: commits.json
\* holds what it held before and the watermark has moved past the one the
\* cycle read.
C16_Witness ==
    /\ settled.outcome = "ok"
    /\ settled.repos = 0
    /\ commitsFile = PreviousCommitsFile
    /\ DateGetTime(dataFile.last_checked) > settled.since

----------------------------------------------------------------------------
(* Termination of the repository listing (checked under ListerSpec) *)

\* every entry of the served order is pushed exactly at the instant since
AllAtWatermark(since) ==
    \A k \in DOMAIN orgRepos : DateGetTime(orgRepos[k].pushed_at) = since

\* C17: getOrgRepos terminates: it requests pages 1, 2, ... in turn, never more
\* than one beyond the pages the organisation fills, and while it has not
\* returned its next step is enabled.  An empty organisation costs one request
\* and gives the empty list; a page-aligned organisation whose entries all
\* equal the watermark is returned whole, and the loop ends on the first
\* empty page.
C17_ListerTerminates ==
    /\ (running # <<>> /\ \A i \in DOMAIN running : running[i].pc = "returned")
          \/ ENABLED ListerNext
    /\ \A i \in DOMAIN running :
          LET c == running[i]
          IN /\ c.requested = [k \in 1..Len(c.requested) |-> k]
             /\ Len(c.requested) <= (Len(orgRepos) + PerPage - 1) \div PerPage + 1
             /\ (c.pc = "returned" /\ orgRepos = <<>>)
                   => (c.requested = <<1>> /\ c.repoList = <<>>)
             /\ (c.pc = "returned" /\ orgRepos # <<>> /\ Len(orgRepos) % PerPage = 0
                 /\ AllAtWatermark(c.since))
                   => /\ c.repoList = orgRepos
                      /\ Len(c.requested) = Len(orgRepos) \div PerPage + 1
                      /\ Page(Len(c.requested)) = <<>>

\* C17 witness: twenty repositories, all pushed exactly at the watermark, have
\* been returned after three page requests.
C17_Witness ==
    \E i \in DOMAIN running :
        /\ running[i].pc = "returned"
        /\ Len(orgRepos) = 2 * PerPage
        /\ AllAtWatermark(running[i].since)
        /\ running[i].repoList = orgRepos
        /\ running[i].requested = <<1, 2, 3>>

----------------------------------------------------------------------------
(* Commits pushed while the program runs (checked under LandSpec) *)

\* the commits the settled cycle recorded for branch b of its k-th repository
Recorded(k, b) ==
    {settled.tasks[k].br[b].commits[j] : j \in DOMAIN settled.tasks[k].br[b].commits}

\* C18 (as claimed): no commit is skipped.  When a cycle whose requests all
\* succeeded has completed, a commit on a branch it fetched that is dated at
\* or after the watermark the cycle read, and before the watermark it
\* persisted (so that no later cycle's since filter matches it), is in the
\* batch that cycle notified.
C18_NoCommitSkipped ==
    (settled.outcome = "ok" /\ ~SomeFetchFailed) =>
        \A k \in DOMAIN settled.tasks : \A b \in DOMAIN settled.tasks[k].br :
            LET all == branchCommits[settled.repoList[k].name][settled.tasks[k].br[b].branch]
            IN \A j \in DOMAIN all :
                  (/\ DateGetTime(all[j].date) >= settled.since
                   /\ all[j].date < dataFile.last_checked)
                     => (all[j] \in Recorded(k, b) /\ settled.tasks[k].br[b].delivery # "none")

----------------------------------------------------------------------------
(* Notifier failures (checked under Spec) *)

\* C19 (as claimed): a Notifier failure never changes what the cycle records.
\* In a completed cycle, every branch whose commits request succeeded with a
\* non-empty list is recorded with exactly that list, whether the message
\* could not be built, the delivery failed or the delivery succeeded.
C19_NotifierFailureKeepsRecord ==
    settled.outcome = "ok" =>
        \A k \in DOMAIN settled.tasks : \A b \in DOMAIN settled.tasks[k].br :
            LET br == settled.tasks[k].br[b]
            IN (br.fetchOk /\ Len(br.fetched) > 0) => br.commits = br.fetched

====
